---------------------------- MODULE Spec2Model ----------------------------
(***************************************************************************)
(* A model of lib/utils.js of fluent-ffmpeg: the line ring buffer          *)
(* (utils.linesRing), the codec-header scanner (utils.extractCodecData)    *)
(* and the argument list (utils.args).                                     *)
(*                                                                         *)
(* Text is a sequence of characters; a character is a one-letter string,   *)
(* with "CR" and "LF" standing for carriage return and line feed.          *)
(***************************************************************************)
EXTENDS Integers, Sequences, FiniteSets, TLC

VARIABLES
    \* ---- utils.linesRing(maxLines): the closure's variables
    maxLines,      \* the constructor's argument
    cbs,           \* number of registered callbacks (cbs.length)
    lines,         \* committed lines
    current,       \* the pending partial line, or Null
    closed,
    \* history of the ring buffer, observed from outside
    delivered,     \* delivered[i]: the lines the i-th registered callback was called with, in order
    commitLog,     \* every line ever pushed onto `lines`, in push order
    regAt,         \* regAt[i]: Len(commitLog) when the i-th callback was registered
    regLines,      \* regLines[i]: the value of `lines` when the i-th callback was registered
    appendedText,  \* the chunks append() was called with and did not ignore, concatenated
    regText,       \* regText[i]: the value of appendedText when the i-th callback was registered
    nAppends,      \* number of append() calls made
    ringOp,        \* the last ring-buffer operation called
    \* ---- utils.extractCodecData(command, stderrLine, codecsObject): one scan session
    codecInit,     \* 'inputStack' in codecsObject
    inputStack,    \* codecsObject.inputStack
    inputIndex,    \* codecsObject.inputIndex (an index from 0, -1 for none)
    inInput,       \* codecsObject.inInput
    codecFault,    \* a call threw (a property of undefined was written)
    \* history of the scan session, observed from outside
    fed,           \* the lines the scanner was called with, in order
    inBefore,      \* inBefore[k]: whether the scan was in an input section when line k was fed
    returns,       \* returns[k]: what the call with line k returned
    emitted,       \* the 'codecData' events emitted: each the sequence of descriptors it carried
    emittedAt,     \* emittedAt[j]: the number of the line at which the j-th event was emitted
    \* ---- utils.args(): the closure's variable
    list,
    \* history of the argument list, observed from outside
    argOp,         \* the last operation called, with its arguments
    argFound,      \* what the call returned, when the last operation was find()
    argRemoved,    \* whether remove() has taken tokens out since the list was last empty
                   \* by construction or clear()
    argAppended,   \* while it has not: the tokens of the append calls made since then, in
                   \* call order (not tracked once it has)
    \* ---- the argument list returned by clone(): a second closure of utils.args()
    cloned,        \* clone() has been called
    cloneList,     \* the clone's `list`
    cloneShared,   \* the two closures' `list` variables refer to one and the same array
    argTarget,     \* which list the last operation was called on: "original" or "clone"
    \* ---- utils.makeFilterStrings(filters): the last call
    filters,       \* the argument
    filterStrings, \* the result
    \* ---- utils.extractProgress(command, stderrLine): the last call
    stderrLine,    \* the line
    ffprobeDuration, \* command._ffprobeData.format.duration: "absent", "number" or "text"
    progressEvents,  \* the 'progress' events the call emitted
    progressFault, \* the call threw
    \* ---- utils.extractError(stderr): the last call
    stderr,        \* the argument
    errorText,     \* the result
    \* ---- utils.which(name, callback) and the module's whichCache
    whichCache,    \* name -> path, defined on the names that are `in whichCache`
    calls,         \* the calls of which made so far, in order, each with its progress
    lookupsStarted \* how many times the external which(name) was called

ringVars == <<maxLines, cbs, lines, current, closed, delivered, commitLog,
              regAt, regLines, appendedText, regText, nAppends, ringOp>>

codecVars == <<codecInit, inputStack, inputIndex, inInput, codecFault,
               fed, inBefore, returns, emitted, emittedAt>>

argVars == <<list, argOp, argFound, argAppended, argRemoved>>

cloneVars == <<cloned, cloneList, cloneShared, argTarget>>

filterVars == <<filters, filterStrings>>

progressVars == <<stderrLine, ffprobeDuration, progressEvents, progressFault>>

errorVars == <<stderr, errorText>>

whichVars == <<whichCache, calls, lookupsStarted>>

vars == <<ringVars, codecVars, argVars, cloneVars, filterVars, progressVars, errorVars,
          whichVars>>

\* what the operations of one component leave alone
notRingVars == <<codecVars, argVars, cloneVars, filterVars, progressVars, errorVars, whichVars>>
notCodecVars == <<ringVars, argVars, cloneVars, filterVars, progressVars, errorVars, whichVars>>
notArgVars == <<ringVars, codecVars, filterVars, progressVars, errorVars, whichVars>>
notFilterVars == <<ringVars, codecVars, argVars, cloneVars, progressVars, errorVars, whichVars>>
notProgressVars == <<ringVars, codecVars, argVars, cloneVars, filterVars, errorVars, whichVars>>
notErrorVars == <<ringVars, codecVars, argVars, cloneVars, filterVars, progressVars, whichVars>>
notWhichVars == <<ringVars, codecVars, argVars, cloneVars, filterVars, progressVars, errorVars>>

---------------------------------------------------------------------------
(* Bounds of the model *)

MaxCapacity == 3       \* maxLines ranges over 0..MaxCapacity
MaxAppends == 3        \* append() calls per run
MaxSubscribers == 2    \* callback() calls per run
MaxFed == 4            \* lines fed to one scan session
MaxListLen == 5        \* tokens in an argument list
MaxCount == 3          \* the count passed to find() and remove()
MaxCloneLen == 2       \* tokens in each list once clone() has been called

---------------------------------------------------------------------------
(* Helpers *)

Min(a, b) == IF a < b THEN a ELSE b

Last(s) == s[Len(s)]

Front(s) == SubSeq(s, 1, Len(s) - 1)

\* the last n elements of s
Suffix(s, n) == SubSeq(s, Len(s) - n + 1, Len(s))

CR == "CR"
LF == "LF"

\* `current === null`: a value no line can take (no line holds the character "null")
Null == <<"null">>

\* the chunks append() is called with
Chunks ==
    { <<>>,
      <<"a">>,
      <<"a", CR>>,
      <<LF, "b">>,
      <<"b", LF>>,
      <<"a", CR, LF, "b">>,
      <<"a", LF, LF, "b", LF, "a">> }

---------------------------------------------------------------------------
(* utils.linesRing *)

\* str.split(nlRegexp), nlRegexp = /\r\n|\r|\n/g : at each position the leftmost
\* alternative that matches is taken, so CR LF together is one separator
RECURSIVE SplitFrom(_, _, _)
SplitFrom(str, piece, out) ==
    IF str = <<>> THEN Append(out, piece)
    ELSE IF Len(str) >= 2 /\ str[1] = CR /\ str[2] = LF
         THEN SplitFrom(Tail(Tail(str)), <<>>, Append(out, piece))
    ELSE IF str[1] = CR \/ str[1] = LF
         THEN SplitFrom(Tail(str), <<>>, Append(out, piece))
    ELSE SplitFrom(Tail(str), Append(piece, str[1]), out)

nlSplit(str) == SplitFrom(str, <<>>, <<>>)

\* var max = maxLines - 1
max == maxLines - 1

\* emit(line) for each line of ls in order: every registered callback is called
EmitDropsFirst(ls) ==
    [i \in 1..cbs |-> delivered[i] \o (IF ls = <<>> THEN <<>> ELSE Tail(ls))]

emit(ls) ==
    [i \in 1..cbs |-> delivered[i] \o ls]

\* callback(cb): lines.forEach(function(l) { cb(l); })
ReplayWithPending(ls, cur) ==
    IF cur # Null THEN Append(ls, cur) ELSE ls

Replay(ls, cur) ==
    ls

\* append(): if (max > -1 && lines.length > max) lines.splice(0, lines.length - max)
TrimKeepsMaxLines(ls) ==
    IF max > -1 /\ Len(ls) > max + 1 THEN Suffix(ls, max + 1) ELSE ls

Trim(ls) ==
    IF max > -1 /\ Len(ls) > max THEN Suffix(ls, max) ELSE ls

\* close(): if (max > -1 && lines.length > max) lines.shift()
CloseTrim(ls) ==
    IF max > -1 /\ Len(ls) > max THEN Tail(ls) ELSE ls

\* append(): the early returns
\*   if (closed) return;   if (!str || str.length === 0) return;
AppendIgnoresOnlyEmpty(str) ==
    str = <<>>

AppendIgnored(str) ==
    closed \/ str = <<>>

\* close(): if (closed) return;
CloseIgnored ==
    closed

\* append(str): the lines committed by the call, in the order they are emitted and
\* pushed: the completed pending line first, then the interior fragments
Committed(str) ==
    LET newLines == nlSplit(str)
    IN  IF Len(newLines) = 1 THEN <<>>
        ELSE IF current # Null
             THEN <<current \o newLines[1]>> \o Front(Tail(newLines))
             ELSE Front(newLines)

\* append(str): the pending line after the call
Pending(str) ==
    LET newLines == nlSplit(str)
    IN  IF Len(newLines) = 1
        THEN (IF current # Null THEN current \o newLines[1] ELSE newLines[1])
        ELSE Last(newLines)

RingAppend(str) ==
    /\ nAppends < MaxAppends
    /\ nAppends' = nAppends + 1
    /\ ringOp' = "append"
    /\ IF AppendIgnored(str)
       THEN UNCHANGED <<lines, current, delivered, commitLog, appendedText>>
       ELSE /\ appendedText' = appendedText \o str
            /\ delivered' = emit(Committed(str))
            /\ commitLog' = commitLog \o Committed(str)
            /\ lines' = (IF Len(nlSplit(str)) = 1 THEN lines
                         ELSE Trim(lines \o Committed(str)))
            /\ current' = Pending(str)
    /\ UNCHANGED <<maxLines, cbs, closed, regAt, regLines, regText>>
    /\ UNCHANGED notRingVars

RingCallback ==
    /\ cbs < MaxSubscribers
    /\ ringOp' = "callback"
    /\ cbs' = cbs + 1
    /\ delivered' = Append(delivered, Replay(lines, current))
    /\ regAt' = Append(regAt, Len(commitLog))
    /\ regLines' = Append(regLines, lines)
    /\ regText' = Append(regText, appendedText)
    /\ UNCHANGED <<maxLines, lines, current, closed, commitLog, appendedText, nAppends>>
    /\ UNCHANGED notRingVars

RingClose ==
    /\ ringOp' = "close"
    /\ IF CloseIgnored
       THEN UNCHANGED <<lines, current, closed, delivered, commitLog>>
       ELSE /\ closed' = TRUE
            /\ IF current # Null
               THEN /\ delivered' = emit(<<current>>)
                    /\ commitLog' = Append(commitLog, current)
                    /\ lines' = CloseTrim(Append(lines, current))
                    /\ current' = Null
               ELSE UNCHANGED <<lines, current, delivered, commitLog>>
    /\ UNCHANGED <<maxLines, cbs, regAt, regLines, appendedText, regText, nAppends>>
    /\ UNCHANGED notRingVars

\* Array.prototype.join('\n')
RECURSIVE Join(_)
Join(ls) ==
    IF ls = <<>> THEN <<>>
    ELSE IF Len(ls) = 1 THEN ls[1]
    ELSE ls[1] \o <<LF>> \o Join(Tail(ls))

\* get()
RingGet ==
    IF current # Null THEN Join(Append(lines, current)) ELSE Join(lines)

\* the state after linesRing(n)
RingCreated(n) ==
    /\ maxLines = n
    /\ cbs = 0
    /\ lines = <<>>
    /\ current = Null
    /\ closed = FALSE
    /\ delivered = <<>>
    /\ commitLog = <<>>
    /\ regAt = <<>>
    /\ regLines = <<>>
    /\ appendedText = <<>>
    /\ regText = <<>>
    /\ nAppends = 0
    /\ ringOp = "none"

RingInit ==
    \E n \in 0..MaxCapacity : RingCreated(n)

RingNext ==
    \/ \E str \in Chunks : RingAppend(str)
    \/ RingCallback
    \/ RingClose

---------------------------------------------------------------------------
(* utils.extractCodecData *)

\* A stderr line is modelled by what the scanner's regular expressions see of it:
\* the set m of the patterns that match it somewhere (none is anchored, so one line
\* can match several) and the text each capturing pattern captures. Text is a
\* sequence of words; the word "," stands for the separator ', ' on which the
\* Audio and Video captures are split.
\*   "input"     inputPattern: Input #<n>, <format>,   capturing the format
\*   "dur"       durPattern: Duration: <text>          capturing up to the first comma
\*   "audio"     audioPattern: Audio: <text>           capturing the rest of the line
\*   "video"     videoPattern: Video: <text>           capturing the rest of the line
\*   "output"    Output #<n>
\*   "terminal"  Stream mapping:, Press [q] to stop or Press ctrl-c to stop
Line(m, format, dur, audio, video) ==
    [m |-> m, format |-> format, dur |-> dur, audio |-> audio, video |-> video]

StderrLines ==
    { Line({}, <<>>, <<>>, <<>>, <<>>),
      Line({"input"}, <<"mov">>, <<>>, <<>>, <<>>),
      Line({"input"}, <<"mp3">>, <<>>, <<>>, <<>>),
      Line({"dur"}, <<>>, <<"00:01">>, <<>>, <<>>),
      Line({"audio"}, <<>>, <<>>, <<"aac", ",", "stereo">>, <<>>),
      Line({"video"}, <<>>, <<>>, <<>>, <<"h264">>),
      Line({"output"}, <<>>, <<>>, <<>>, <<>>),
      Line({"terminal"}, <<>>, <<>>, <<>>, <<>>),
      \* Input #0, mov, from 'Audio: x.mov':
      Line({"input", "audio"}, <<"mov">>, <<>>, <<"x.mov':">>, <<>>),
      \* Output #0, mp4, to 'Video: y.mp4':
      Line({"output", "video"}, <<>>, <<>>, <<>>, <<"y.mp4':">>),
      \* Duration: N/A Stream mapping:
      Line({"dur", "terminal"}, <<>>, <<"N/A">>, <<>>, <<>>),
      \* Output #0 Stream mapping:
      Line({"output", "terminal"}, <<>>, <<>>, <<>>, <<>>) }

\* text.split(', ')
RECURSIVE SplitCommaFrom(_, _, _)
SplitCommaFrom(text, piece, out) ==
    IF text = <<>> THEN Append(out, piece)
    ELSE IF text[1] = ","
         THEN SplitCommaFrom(Tail(text), <<>>, Append(out, piece))
    ELSE SplitCommaFrom(Tail(text), Append(piece, text[1]), out)

commaSplit(text) == SplitCommaFrom(text, <<>>, <<>>)

\* { format: format[1], audio: '', video: '', duration: '' }
NewDescriptor(format) ==
    [format |-> format, audio |-> <<>>, video |-> <<>>, duration |-> <<>>]

\* an array element never assigned
Hole == [hole |-> TRUE]

\* array[i] = v, i an index from 0
ArraySet(array, i, v) ==
    [k \in 1..(IF i + 1 > Len(array) THEN i + 1 ELSE Len(array)) |->
        IF k = i + 1 THEN v
        ELSE IF k <= Len(array) THEN array[k] ELSE Hole]

\* object.field = v
FieldSet(object, field, v) ==
    [f \in DOMAIN object \cup {field} |-> IF f = field THEN v ELSE object[f]]

\* the if / else if chain: which branch a line matching the patterns m takes
BranchUnguarded(m, inSection) ==
    IF "input" \in m THEN "input"
    ELSE IF "dur" \in m THEN "dur"
    ELSE IF "audio" \in m THEN "audio"
    ELSE IF "video" \in m THEN "video"
    ELSE IF "output" \in m THEN "output"
    ELSE IF "terminal" \in m THEN "terminal"
    ELSE "none"

BranchTerminalFirst(m, inSection) ==
    IF "terminal" \in m THEN "terminal"
    ELSE IF "input" \in m THEN "input"
    ELSE IF inSection /\ "dur" \in m THEN "dur"
    ELSE IF inSection /\ "audio" \in m THEN "audio"
    ELSE IF inSection /\ "video" \in m THEN "video"
    ELSE IF "output" \in m THEN "output"
    ELSE "none"

BranchTerminalBeforeOutput(m, inSection) ==
    IF "input" \in m THEN "input"
    ELSE IF inSection /\ "dur" \in m THEN "dur"
    ELSE IF inSection /\ "audio" \in m THEN "audio"
    ELSE IF inSection /\ "video" \in m THEN "video"
    ELSE IF "terminal" \in m THEN "terminal"
    ELSE IF "output" \in m THEN "output"
    ELSE "none"

Branch(m, inSection) ==
    IF "input" \in m THEN "input"
    ELSE IF inSection /\ "dur" \in m THEN "dur"
    ELSE IF inSection /\ "audio" \in m THEN "audio"
    ELSE IF inSection /\ "video" \in m THEN "video"
    ELSE IF "output" \in m THEN "output"
    ELSE IF "terminal" \in m THEN "terminal"
    ELSE "none"

\* inputStack[inputIndex]: the index of the descriptor the Duration, Audio and Video
\* branches write to
TargetFirst(index) == 0

Target(index) == index

\* the descriptor after the Duration, Audio or Video branch has written to it
Written(d, branch, line) ==
    CASE branch = "dur" ->
            FieldSet(d, "duration", line.dur)
      [] branch = "audio" ->
            FieldSet(FieldSet(d, "audio", commaSplit(line.audio)[1]),
                     "audio_details", commaSplit(line.audio))
      [] branch = "video" ->
            FieldSet(FieldSet(d, "video", commaSplit(line.video)[1]),
                     "video_details", commaSplit(line.video))

ExtractCodecData(line) ==
    LET branch == Branch(line.m, inInput)
        t == Target(inputIndex)
    IN
    /\ Len(fed) < MaxFed
    /\ ~codecFault
    /\ fed' = Append(fed, line)
    /\ inBefore' = Append(inBefore, inInput)
    /\ codecInit' = TRUE
    /\ UNCHANGED notCodecVars
    /\ CASE branch = "input" ->
              /\ inInput' = TRUE
              /\ inputIndex' = inputIndex + 1
              /\ inputStack' = ArraySet(inputStack, inputIndex + 1, NewDescriptor(line.format))
              /\ returns' = Append(returns, FALSE)
              /\ UNCHANGED <<codecFault, emitted, emittedAt>>
         [] branch \in {"dur", "audio", "video"} ->
              IF t + 1 \in 1..Len(inputStack) /\ inputStack[t + 1] # Hole
              THEN /\ inputStack' = ArraySet(inputStack, t, Written(inputStack[t + 1], branch, line))
                   /\ returns' = Append(returns, FALSE)
                   /\ UNCHANGED <<inputIndex, inInput, codecFault, emitted, emittedAt>>
              ELSE \* TypeError: cannot set a property of undefined
                   /\ codecFault' = TRUE
                   /\ UNCHANGED <<inputStack, inputIndex, inInput, returns, emitted, emittedAt>>
         [] branch = "output" ->
              /\ inInput' = FALSE
              /\ returns' = Append(returns, FALSE)
              /\ UNCHANGED <<inputStack, inputIndex, codecFault, emitted, emittedAt>>
         [] branch = "terminal" ->
              /\ emitted' = Append(emitted, inputStack)
              /\ emittedAt' = Append(emittedAt, Len(fed) + 1)
              /\ returns' = Append(returns, TRUE)
              /\ UNCHANGED <<inputStack, inputIndex, inInput, codecFault>>
         [] branch = "none" ->
              /\ returns' = Append(returns, FALSE)
              /\ UNCHANGED <<inputStack, inputIndex, inInput, codecFault, emitted, emittedAt>>

\* the session starts from an empty codecsObject: the first call sets
\* inputStack = [], inputIndex = -1, inInput = false before anything reads them
CodecInit ==
    /\ codecInit = FALSE
    /\ inputStack = <<>>
    /\ inputIndex = -1
    /\ inInput = FALSE
    /\ codecFault = FALSE
    /\ fed = <<>>
    /\ inBefore = <<>>
    /\ returns = <<>>
    /\ emitted = <<>>
    /\ emittedAt = <<>>

CodecNext ==
    \E line \in StderrLines : ExtractCodecData(line)

---------------------------------------------------------------------------
(* utils.args *)

Tokens == {"a", "b", "x"}

\* the values passed to the append function: a token, or an array of tokens
Tok(t) == [array |-> FALSE, items |-> <<t>>]
Arr(ts) == [array |-> TRUE, items |-> ts]

\* the `arguments` of the append calls made
ArgCalls ==
    { <<>>,
      <<Arr(<<>>)>>,
      <<Arr(<<"a">>)>>,
      <<Arr(<<"x", "a">>)>>,
      <<Arr(<<"b", "x", "b">>)>>,
      <<Tok("a")>>,
      <<Tok("x")>>,
      <<Tok("b"), Tok("b")>>,
      <<Tok("x"), Tok("a"), Tok("x")>> }

\* the tokens a call passes, in order
RECURSIVE CallTokens(_)
CallTokens(arguments) ==
    IF arguments = <<>> THEN <<>>
    ELSE arguments[1].items \o CallTokens(Tail(arguments))

\* [].slice.call(arguments): the arguments as an array, each one element of it
AsElements(arguments) ==
    [i \in 1..Len(arguments) |->
        IF arguments[i].array THEN arguments[i].items ELSE arguments[i].items[1]]

\* argfunc, in a closure whose list is l: the list after the call
appendToKeepsFirstOnly(l, arguments) ==
    IF Len(arguments) >= 1 /\ arguments[1].array
    THEN l \o arguments[1].items
    ELSE l \o SubSeq(AsElements(arguments), 1, Min(1, Len(arguments)))

appendTo(l, arguments) ==
    IF Len(arguments) = 1 /\ arguments[1].array
    THEN l \o arguments[1].items
    ELSE l \o AsElements(arguments)

argfuncKeepsFirstOnly(arguments) == appendToKeepsFirstOnly(list, arguments)

argfunc(arguments) == appendTo(list, arguments)

\* array.indexOf(arg): the index from 0 of the first element equal to arg, or -1
RECURSIVE IndexFrom(_, _, _)
IndexFrom(array, arg, i) ==
    IF i >= Len(array) THEN -1
    ELSE IF array[i + 1] = arg THEN i
    ELSE IndexFrom(array, arg, i + 1)

RECURSIVE LastIndexFrom(_, _, _)
LastIndexFrom(array, arg, i) ==
    IF i < 0 THEN -1
    ELSE IF array[i + 1] = arg THEN i
    ELSE LastIndexFrom(array, arg, i - 1)

lastIndexOf(array, arg) == LastIndexFrom(array, arg, Len(array) - 1)

indexOf(array, arg) == IndexFrom(array, arg, 0)

\* array.slice(start, end), 0 <= start: the elements at the indices start..end-1
\* that exist
slice(array, start, end) ==
    SubSeq(array, start + 1, Min(end, Len(array)))

\* array.splice(start, deleteCount), 0 <= start: the array left
spliceKeepsOneMore(array, start, deleteCount) ==
    SubSeq(array, 1, start) \o SubSeq(array, start + deleteCount, Len(array))

splice(array, start, deleteCount) ==
    SubSeq(array, 1, start) \o SubSeq(array, start + deleteCount + 1, Len(array))

\* undefined, and the value of argFound after a call that is not find()
NoResult == [found |-> FALSE, items |-> <<>>]

\* argfunc.find(arg, count): found is FALSE when the call returns undefined
find(arg, count) ==
    LET index == indexOf(list, arg)
    IN  IF index # -1
        THEN [found |-> TRUE, items |-> slice(list, index + 1, index + 1 + count)]
        ELSE NoResult

\* argfunc.remove(arg, count), in a closure whose list is l: the list after the call
removeFrom(l, arg, count) ==
    LET index == indexOf(l, arg)
    IN  IF index # -1 THEN splice(l, index, count + 1) ELSE l

remove(arg, count) == removeFrom(list, arg, count)

\* argfunc.clone(): the clone's list after `cloned = utils.args(); cloned(list)`, and
\* whether it is the same array as the list cloned: concat() builds a new array
cloneKeepsTheArray(l) ==
    [items |-> l, shared |-> TRUE]

clone(l) ==
    [items |-> appendTo(<<>>, <<Arr(l)>>), shared |-> FALSE]

\* operations on the original list. An assignment to `list` (list = list.concat(..),
\* list = []) makes the closure's variable refer to a new array; splice() changes
\* the array in place, for every variable that refers to it
ArgAppend(arguments) ==
    /\ Len(list) + Len(CallTokens(arguments)) <= (IF cloned THEN MaxCloneLen ELSE MaxListLen)
    /\ list' = argfunc(arguments)
    /\ argOp' = [op |-> "append", arg |-> "", count |-> 0]
    /\ argAppended' = (IF argRemoved THEN <<>> ELSE argAppended \o CallTokens(arguments))
    /\ argFound' = NoResult
    /\ argTarget' = "original"
    /\ cloneShared' = FALSE
    /\ UNCHANGED <<argRemoved, cloned, cloneList>>
    /\ UNCHANGED notArgVars

ArgClear ==
    /\ list' = <<>>
    /\ argOp' = [op |-> "clear", arg |-> "", count |-> 0]
    /\ argAppended' = <<>>
    /\ argRemoved' = FALSE
    /\ argFound' = NoResult
    /\ argTarget' = "original"
    /\ cloneShared' = FALSE
    /\ UNCHANGED <<cloned, cloneList>>
    /\ UNCHANGED notArgVars

ArgFind(arg, count) ==
    /\ argFound' = find(arg, count)
    /\ argOp' = [op |-> "find", arg |-> arg, count |-> count]
    /\ argTarget' = "original"
    /\ UNCHANGED <<list, argAppended, argRemoved, cloned, cloneList, cloneShared>>
    /\ UNCHANGED notArgVars

ArgRemove(arg, count) ==
    /\ list' = remove(arg, count)
    /\ argOp' = [op |-> "remove", arg |-> arg, count |-> count]
    /\ argRemoved' = (argRemoved \/ remove(arg, count) # list)
    /\ argAppended' = (IF argRemoved' THEN <<>> ELSE argAppended)
    /\ argFound' = NoResult
    /\ argTarget' = "original"
    /\ cloneList' = (IF cloneShared THEN list' ELSE cloneList)
    /\ UNCHANGED <<cloned, cloneShared>>
    /\ UNCHANGED notArgVars

\* clone(), called once
ArgClone ==
    /\ ~cloned
    /\ Len(list) <= MaxCloneLen
    /\ cloned' = TRUE
    /\ cloneList' = clone(list).items
    /\ cloneShared' = clone(list).shared
    /\ argOp' = [op |-> "clone", arg |-> "", count |-> 0]
    /\ argFound' = NoResult
    /\ argTarget' = "original"
    /\ UNCHANGED <<list, argAppended, argRemoved>>
    /\ UNCHANGED notArgVars

\* the same operations on the clone
CloneAppend(arguments) ==
    /\ cloned
    /\ Len(cloneList) + Len(CallTokens(arguments)) <= MaxCloneLen
    /\ cloneList' = appendTo(cloneList, arguments)
    /\ argOp' = [op |-> "append", arg |-> "", count |-> 0]
    /\ argFound' = NoResult
    /\ argTarget' = "clone"
    /\ cloneShared' = FALSE
    /\ UNCHANGED <<list, argAppended, argRemoved, cloned>>
    /\ UNCHANGED notArgVars

CloneClear ==
    /\ cloned
    /\ cloneList' = <<>>
    /\ argOp' = [op |-> "clear", arg |-> "", count |-> 0]
    /\ argFound' = NoResult
    /\ argTarget' = "clone"
    /\ cloneShared' = FALSE
    /\ UNCHANGED <<list, argAppended, argRemoved, cloned>>
    /\ UNCHANGED notArgVars

CloneRemove(arg, count) ==
    /\ cloned
    /\ cloneList' = removeFrom(cloneList, arg, count)
    /\ argOp' = [op |-> "remove", arg |-> arg, count |-> count]
    /\ argFound' = NoResult
    /\ argTarget' = "clone"
    /\ list' = (IF cloneShared THEN cloneList' ELSE list)
    /\ argRemoved' = (argRemoved \/ list' # list)
    /\ argAppended' = (IF argRemoved' THEN <<>> ELSE argAppended)
    /\ UNCHANGED <<cloned, cloneShared>>
    /\ UNCHANGED notArgVars

\* get()
ArgGet == list

ArgInit ==
    /\ list = <<>>
    /\ argOp = [op |-> "none", arg |-> "", count |-> 0]
    /\ argFound = NoResult
    /\ argAppended = <<>>
    /\ argRemoved = FALSE
    /\ cloned = FALSE
    /\ cloneList = <<>>
    /\ cloneShared = FALSE
    /\ argTarget = "original"

ArgNext ==
    \/ \E arguments \in ArgCalls : ArgAppend(arguments)
    \/ ArgClear
    \/ \E arg \in Tokens, count \in 0..MaxCount : ArgFind(arg, count)
    \/ \E arg \in Tokens, count \in 0..MaxCount : ArgRemove(arg, count)

\* an argument list and its clone
CloneNext ==
    \/ \E arguments \in ArgCalls : ArgAppend(arguments)
    \/ ArgClear
    \/ \E arg \in Tokens, count \in 0..MaxCount : ArgRemove(arg, count)
    \/ ArgClone
    \/ \E arguments \in ArgCalls : CloneAppend(arguments)
    \/ CloneClear
    \/ \E arg \in Tokens, count \in 0..MaxCount : CloneRemove(arg, count)

---------------------------------------------------------------------------
(* utils.makeFilterStrings *)

\* an option value: a string or a number, with the text it is written as
Str(text) == [type |-> "string", text |-> text]
Num(text) == [type |-> "number", text |-> text]

OptionValues ==
    { Str(<<"a">>), Str(<<"a", ",", "b">>), Str(<<",">>), Num(<<"1">>) }

\* filterSpec.options: undefined, a string or number, an array, or an object, whose
\* keys are in insertion order
NoOptions == [kind |-> "none", value |-> Str(<<>>), values |-> <<>>, keys |-> <<>>]
Scalar(v) == [kind |-> "scalar", value |-> v, values |-> <<>>, keys |-> <<>>]
Positional(vs) == [kind |-> "array", value |-> Str(<<>>), values |-> vs, keys |-> <<>>]
Named(ks, vs) == [kind |-> "object", value |-> Str(<<>>), values |-> vs, keys |-> ks]

OptionSpecs ==
    {NoOptions, Scalar(Str(<<>>)), Scalar(Num(<<"0">>)), Positional(<<>>), Named(<<>>, <<>>)}
    \cup {Scalar(v) : v \in OptionValues}
    \cup {Positional(<<v>>) : v \in OptionValues}
    \cup {Positional(<<v, Str(<<"a", ",", "b">>)>>) : v \in OptionValues}
    \cup {Positional(<<Str(<<"a">>), Num(<<"1">>), Str(<<",">>)>>)}
    \cup {Named(<<<<"w">>>>, <<v>>) : v \in OptionValues}
    \cup {Named(<<<<"w">>, <<"h">>>>, <<v, Num(<<"1">>)>>) : v \in OptionValues}
    \cup {Named(<<<<"h">>, <<"w">>>>, <<Str(<<"a", ",", "b">>), Str(<<",">>)>>)}

\* filterSpec.inputs and filterSpec.outputs: undefined, a string, or an array of strings
NoStreams == [kind |-> "none", items |-> <<>>]
OneStream(text) == [kind |-> "string", items |-> <<text>>]
Streams(texts) == [kind |-> "array", items |-> texts]

StreamSpecs ==
    { NoStreams,
      OneStream(<<"i">>),
      OneStream(<<"[", "i", "]">>),
      Streams(<<<<"i">>, <<"[", "o", "]">>>>) }

\* a filter specification: a string, passed through, or an object
FilterText(text) ==
    [isString |-> TRUE, filter |-> text, inputs |-> NoStreams, outputs |-> NoStreams,
     options |-> NoOptions]
FilterSpec(ins, options, outs) ==
    [isString |-> FALSE, filter |-> <<"f">>, inputs |-> ins, outputs |-> outs,
     options |-> options]

FilterSpecs ==
    {FilterText(<<"f", "=", "a", ",", "b">>)}
    \cup {FilterSpec(ins, options, outs) :
            ins \in StreamSpecs, options \in OptionSpecs,
            outs \in {NoStreams, OneStream(<<"o">>)}}

\* the arrays makeFilterStrings is called with
FilterArrays ==
    {<<>>}
    \cup {<<f>> : f \in FilterSpecs}
    \cup {<<FilterText(<<"f", "=", "a", ",", "b">>), f>> :
            f \in {FilterSpec(NoStreams, Positional(<<v>>), NoStreams) : v \in OptionValues}}

\* streamSpec.replace(streamRegexp, '[$1]'), streamRegexp = /^\[?(.*?)\]?$/ : one
\* leading [ and one trailing ] are dropped, and the rest is put in brackets
bracket(text) ==
    LET open == IF text # <<>> /\ text[1] = "[" THEN Tail(text) ELSE text
        inner == IF open # <<>> /\ Last(open) = "]" THEN Front(open) ELSE open
    IN  <<"[">> \o inner \o <<"]">>

\* array.join(separator), of texts
RECURSIVE JoinWith(_, _)
JoinWith(texts, separator) ==
    IF texts = <<>> THEN <<>>
    ELSE IF Len(texts) = 1 THEN texts[1]
    ELSE texts[1] \o separator \o JoinWith(Tail(texts), separator)

\* the inputs and the outputs of a filter as written
streamsString(streams) ==
    JoinWith([i \in 1..Len(streams.items) |-> bracket(streams.items[i])], <<>>)

\* typeof value === 'string' && value.match(filterEscapeRegexp), filterEscapeRegexp = /[,]/
needsEscape(v) ==
    v.type = "string" /\ \E i \in 1..Len(v.text) : v.text[i] = ","

\* an option of an option array or object as written: in quotes when it needs them
escapedNever(v) == v.text

escaped(v) ==
    IF needsEscape(v) THEN <<"'">> \o v.text \o <<"'">> ELSE v.text

\* if (filterSpec.options): '', 0 and undefined are false
truthy(options) ==
    CASE options.kind = "none" -> FALSE
      [] options.kind = "scalar" ->
            options.value.text # <<>> /\ options.value # Num(<<"0">>)
      [] OTHER -> TRUE

\* the options of a filter as written
optionsString(options) ==
    IF ~truthy(options) THEN <<>>
    ELSE CASE options.kind = "scalar" ->
                <<"=">> \o options.value.text
           [] options.kind = "array" ->
                <<"=">> \o JoinWith([i \in 1..Len(options.values) |-> escaped(options.values[i])],
                                    <<":">>)
           [] options.kind = "object" ->
                IF Len(options.keys) = 0 THEN <<>>
                ELSE <<"=">> \o JoinWith([i \in 1..Len(options.keys) |->
                                            options.keys[i] \o <<"=">> \o escaped(options.values[i])],
                                         <<":">>)

\* the function mapped over filters
filterString(filterSpec) ==
    IF filterSpec.isString THEN filterSpec.filter
    ELSE streamsString(filterSpec.inputs) \o filterSpec.filter
            \o optionsString(filterSpec.options) \o streamsString(filterSpec.outputs)

MakeFilterStrings(fs) ==
    /\ filters' = fs
    /\ filterStrings' = [i \in 1..Len(fs) |-> filterString(fs[i])]
    /\ UNCHANGED notFilterVars

FilterInit ==
    /\ filters = <<>>
    /\ filterStrings = <<>>

FilterNext ==
    \E fs \in FilterArrays : MakeFilterStrings(fs)

---------------------------------------------------------------------------
(* parseProgressLine and utils.extractProgress *)

\* the longest line given to extractProgress
MaxLineLen == 5

\* A line is a sequence of these: the word time, a letter of another key, the
\* equals sign, the space and a digit.
LineAlphabet == {"time", "f", "=", " ", "1"}

\* The lines of at most MaxLineLen of them, each reached from the one before it:
\* the result of a call depends on its arguments only.
ProgressLinesAfter(line) ==
    {<<>>} \cup {Append(line, c) : c \in IF Len(line) < MaxLineLen THEN LineAlphabet ELSE {}}

Undefined == <<"undefined">>

RECURSIVE DropLeadingSpaces(_)
DropLeadingSpaces(text) ==
    IF text # <<>> /\ text[1] = " " THEN DropLeadingSpaces(Tail(text)) ELSE text

RECURSIVE DropTrailingSpaces(_)
DropTrailingSpaces(text) ==
    IF text # <<>> /\ Last(text) = " " THEN DropTrailingSpaces(Front(text)) ELSE text

\* line.replace(/=\s+/g, '=')
RECURSIVE collapse(_)
collapse(text) ==
    IF text = <<>> THEN <<>>
    ELSE IF text[1] = "=" THEN <<"=">> \o collapse(DropLeadingSpaces(Tail(text)))
    ELSE <<text[1]>> \o collapse(Tail(text))

trim(text) == DropTrailingSpaces(DropLeadingSpaces(text))

\* text.split(separator), separator one character
RECURSIVE SplitOnFrom(_, _, _)
SplitOnFrom(text, separator, piece) ==
    IF text = <<>> THEN <<piece>>
    ELSE IF text[1] = separator THEN <<piece>> \o SplitOnFrom(Tail(text), separator, <<>>)
    ELSE SplitOnFrom(Tail(text), separator, Append(piece, text[1]))

split(text, separator) == SplitOnFrom(text, separator, <<>>)

\* text.split(separator, 2): the first two pieces only
split2(text, separator) ==
    LET pieces == split(text, separator) IN SubSeq(pieces, 1, Min(2, Len(pieces)))

\* key and value of one progress part; the value is undefined without an equals sign
keyOf(part) == split2(part, "=")[1]

valueOf(part) ==
    LET progressSplit == split2(part, "=")
    IN  IF Len(progressSplit) < 2 THEN Undefined ELSE progressSplit[2]

progressParts(line) == split(trim(collapse(line)), " ")

\* parseProgressLine returns null when some part has no value
parsesToNull(line) ==
    \E i \in 1..Len(progressParts(line)) : valueOf(progressParts(line)[i]) = Undefined

\* progress[key] of the object parseProgressLine returns: the value of the last part
\* with that key, undefined when there is none
property(line, key) ==
    LET parts == progressParts(line)
        at == {i \in 1..Len(parts) : keyOf(parts[i]) = key}
    IN  IF at = {} THEN Undefined
        ELSE valueOf(parts[CHOOSE i \in at : \A j \in at : j <= i])

\* timemarkToSeconds throws on undefined (timemark.indexOf), and on nothing else
timemarkToSecondsThrows(timemark) == timemark = Undefined

\* the percent is computed when the duration is set and Number(duration) is a number
percentWanted(duration) == duration = "number"

ExtractProgress(line, duration) ==
    /\ stderrLine' = line
    /\ ffprobeDuration' = duration
    /\ IF parsesToNull(line)
       THEN /\ progressEvents' = <<>>
            /\ progressFault' = FALSE
       ELSE LET timemark == property(line, <<"time">>)
            IN  IF percentWanted(duration) /\ timemarkToSecondsThrows(timemark)
                THEN /\ progressEvents' = <<>>
                     /\ progressFault' = TRUE
                ELSE /\ progressEvents' = <<[timemark |-> timemark,
                                             percent |-> percentWanted(duration)]>>
                     /\ progressFault' = FALSE
    /\ UNCHANGED notProgressVars

ProgressInit ==
    /\ stderrLine = <<>>
    /\ ffprobeDuration = "absent"
    /\ progressEvents = <<>>
    /\ progressFault = FALSE

ProgressNext ==
    \E line \in ProgressLinesAfter(stderrLine), duration \in {"absent", "number", "text"} :
        ExtractProgress(line, duration)

---------------------------------------------------------------------------
(* utils.extractError *)

\* the longest text given to extractError
MaxStderrLen == 5

StderrAlphabet == {"e", " ", "[", CR, LF}

\* The texts of at most MaxStderrLen of them, each reached from the one before it:
\* the result of a call depends on its argument only.
StderrTextsAfter(text) ==
    {<<>>} \cup {Append(text, c) : c \in IF Len(text) < MaxStderrLen THEN StderrAlphabet ELSE {}}

\* message.charAt(0) === ' ' || message.charAt(0) === '['
startsWithSpace(message) ==
    message # <<>> /\ message[1] = " "

startsWithSpaceOrBracket(message) ==
    message # <<>> /\ message[1] \in {" ", "["}

\* messages.reduce(function(messages, message) {...}, initial)
RECURSIVE reduce(_, _)
reduce(messages, kept) ==
    IF messages = <<>> THEN kept
    ELSE reduce(Tail(messages),
                IF startsWithSpaceOrBracket(messages[1]) THEN <<>>
                ELSE Append(kept, messages[1]))

extractError(text) == Join(reduce(nlSplit(text), <<>>))

ExtractError(text) ==
    /\ stderr' = text
    /\ errorText' = extractError(text)
    /\ UNCHANGED notErrorVars

ErrorInit ==
    /\ stderr = <<>>
    /\ errorText = <<>>

ErrorNext ==
    \E text \in StderrTextsAfter(stderr) : ExtractError(text)

---------------------------------------------------------------------------
(* utils.which and whichCache *)

\* how many calls of which are made
MaxCalls == 3

Names == {"ffmpeg", "ffprobe"}

\* what the external lookup can resolve to; it rejects when it finds nothing
Paths == {"/p1", "/p2"}

\* A call of which: its name, whether its callback throws, the (err, path) pairs its
\* callback was called with, in order, and where the call is:
\*   "cached"    the callback was called from the cache, in the call itself
\*   "pending"   which(name) was called and its promise is not settled
\*   "thrown"    the callback threw in the then handler; the catch handler is to run
\*   "done"      a handler called the callback, which returned
\*   "unhandled" the callback threw in the catch handler
\* and how the external lookup ended: "none" (not yet, or not started), "resolved",
\* "rejected".
NewCall(name, throws) ==
    [name |-> name, throws |-> throws, delivered |-> <<>>, stage |-> "pending",
     outcome |-> "none"]

\* whichCache[name] = result
storeOnlyFound(cache, name, result) ==
    IF result = "" THEN cache
    ELSE [n \in DOMAIN cache \cup {name} |-> IF n = name THEN result ELSE cache[n]]

store(cache, name, result) ==
    [n \in DOMAIN cache \cup {name} |-> IF n = name THEN result ELSE cache[n]]

\* callback(null, path)
callback(call, path) == Append(call.delivered, <<"null", path>>)

\* which(name, callback): from the cache when the name is in it, else the external
\* lookup is started
Which(name, throws) ==
    /\ Len(calls) < MaxCalls
    /\ IF name \in DOMAIN whichCache
       THEN /\ calls' = Append(calls, [NewCall(name, throws) EXCEPT
                                          !.delivered = callback(NewCall(name, throws), whichCache[name]),
                                          !.stage = "cached"])
            /\ UNCHANGED lookupsStarted
       ELSE /\ calls' = Append(calls, NewCall(name, throws))
            /\ lookupsStarted' = lookupsStarted + 1
    /\ UNCHANGED whichCache
    /\ UNCHANGED notWhichVars

\* the lookup of call id resolves with result and the then handler runs
Resolve(id, result) ==
    /\ calls[id].stage = "pending"
    /\ whichCache' = store(whichCache, calls[id].name, result)
    /\ calls' = [calls EXCEPT ![id] = [@ EXCEPT
                    !.delivered = callback(calls[id], result),
                    !.outcome = "resolved",
                    !.stage = IF calls[id].throws THEN "thrown" ELSE "done"]]
    /\ UNCHANGED lookupsStarted
    /\ UNCHANGED notWhichVars

\* the catch handler of call id runs: the lookup rejected, or the then handler threw
Catch(id, outcome) ==
    /\ whichCache' = store(whichCache, calls[id].name, "")
    /\ calls' = [calls EXCEPT ![id] = [@ EXCEPT
                    !.delivered = callback(calls[id], ""),
                    !.outcome = outcome,
                    !.stage = IF calls[id].throws THEN "unhandled" ELSE "done"]]
    /\ UNCHANGED lookupsStarted
    /\ UNCHANGED notWhichVars

Reject(id) ==
    /\ calls[id].stage = "pending"
    /\ Catch(id, "rejected")

CatchAfterThrow(id) ==
    /\ calls[id].stage = "thrown"
    /\ Catch(id, "resolved")

WhichInit ==
    /\ whichCache = [n \in {} |-> ""]
    /\ calls = <<>>
    /\ lookupsStarted = 0

WhichNext ==
    \/ \E name \in Names, throws \in BOOLEAN : Which(name, throws)
    \/ \E id \in 1..Len(calls), result \in Paths : Resolve(id, result)
    \/ \E id \in 1..Len(calls) : Reject(id)
    \/ \E id \in 1..Len(calls) : CatchAfterThrow(id)

---------------------------------------------------------------------------
(* Claims about the line ring buffer, checked under SpecRing *)

\* C1: with maxLines > 0 the committed lines retained are at most maxLines - 1, and
\* they are always the newest of all the lines ever committed (the oldest are the
\* ones dropped, and none is dropped unless the limit forces it); the pending line
\* is not among them until a newline or close() commits it.
C1_RetainsNewestCommitted ==
    maxLines > 0 =>
        /\ Len(lines) <= maxLines - 1
        /\ lines = Suffix(commitLog, Min(Len(commitLog), maxLines - 1))

C1_Witness ==
    /\ maxLines > 1
    /\ ringOp = "append"
    /\ current # Null
    /\ Len(lines) = maxLines - 1
    /\ Len(commitLog) > Len(lines)

\* C6 (as stated): callback() on a buffer with a pending partial line replays the
\* committed lines followed by the pending line's text.
C6_ReplayIncludesPending ==
    (ringOp = "callback" /\ current # Null) =>
        delivered[cbs] = Append(lines, current)

\* C6 (amended): callback() on a buffer with a pending partial line replays exactly
\* the committed lines, in order; the pending line's text is not replayed.
C6_ReplayCommittedOnly ==
    (ringOp = "callback" /\ current # Null) =>
        delivered[cbs] = lines

C6_Witness ==
    /\ ringOp = "callback"
    /\ current # Null
    /\ current # <<>>
    /\ lines # <<>>

\* C7: every registered callback has been called with exactly the committed lines
\* retained when it was registered, oldest first, followed by every line committed
\* since, once each and in commit order.
C7_HistoryThenLive ==
    \A i \in 1..cbs :
        delivered[i] = regLines[i] \o SubSeq(commitLog, regAt[i] + 1, Len(commitLog))

C7_Witness ==
    \E i \in 1..cbs :
        /\ regLines[i] # <<>>
        /\ Len(regLines[i]) < regAt[i]
        /\ Len(commitLog) > regAt[i] + 1
        /\ closed
        /\ Last(delivered[i]) = Last(commitLog)

\* C8: once closed, a call of close() or append() calls no callback and leaves the
\* committed lines, the pending line, the result of get() and the closed flag unchanged.
C8_ClosedIsAbsorbing ==
    [][(closed /\ ringOp' \in {"append", "close"}) =>
          /\ closed'
          /\ delivered' = delivered
          /\ lines' = lines
          /\ current' = current
          /\ RingGet' = RingGet]_vars

C8_Witness ==
    /\ closed
    /\ ringOp = "append"
    /\ nAppends > 1
    /\ cbs > 0
    /\ lines # <<>>

---------------------------------------------------------------------------
(* Claims about the codec-header scanner, checked under SpecCodec *)

DurAudioVideo == {"dur", "audio", "video"}

\* the formats captured by the new-input marker in the lines fed, in the order fed
RECURSIVE InputFormats(_)
InputFormats(ls) ==
    IF ls = <<>> THEN <<>>
    ELSE (IF "input" \in ls[1].m THEN <<ls[1].format>> ELSE <<>>) \o InputFormats(Tail(ls))

\* line k matched the terminal marker and nothing else
OnlyTerminal(k) ==
    fed[k].m = {"terminal"}

\* line k was handled as the terminal marker: it matched the terminal marker, neither
\* the new-input nor the Output marker, and no Duration, Audio or Video pattern
\* unless the scan was outside an input section
HandledAsTerminal(k) ==
    /\ "terminal" \in fed[k].m
    /\ "input" \notin fed[k].m
    /\ "output" \notin fed[k].m
    /\ inBefore[k] => fed[k].m \cap DurAudioVideo = {}

\* the session returned false for every line but the last and true for the last, and
\* emitted 'codecData' once, at the last line, with every accumulated descriptor in
\* the order of the input sections
FalseThenTrueAndOneEvent ==
    /\ returns = [k \in 1..Len(fed) |-> k = Len(fed)]
    /\ Len(emitted) = 1
    /\ emittedAt = <<Len(fed)>>
    /\ emitted[1] = inputStack
    /\ [i \in 1..Len(emitted[1]) |-> emitted[1][i].format] = InputFormats(fed)

\* C2 (as stated): a session that ends at the first line matching only the terminal
\* marker returned false for every earlier line and true for that line, and emitted
\* 'codecData' exactly once, at that line, with all the accumulated descriptors.
C2_EndsAtFirstOnlyTerminalLine ==
    (/\ ~codecFault
     /\ Len(fed) > 0
     /\ OnlyTerminal(Len(fed))
     /\ \A k \in 1..(Len(fed) - 1) : ~OnlyTerminal(k))
    => FalseThenTrueAndOneEvent

\* C2 (amended): the same of a session that ends at the first line handled as the
\* terminal marker; and before any such line every call returned false and nothing
\* was emitted.
C2_EndsAtFirstLineHandledAsTerminal ==
    /\ (/\ Len(fed) > 0
        /\ HandledAsTerminal(Len(fed))
        /\ \A k \in 1..(Len(fed) - 1) : ~HandledAsTerminal(k))
       => FalseThenTrueAndOneEvent
    /\ (\A k \in 1..Len(fed) : ~HandledAsTerminal(k))
       => (emitted = <<>> /\ \A k \in 1..Len(returns) : ~returns[k])

C2_Witness ==
    /\ Len(fed) = MaxFed
    /\ HandledAsTerminal(Len(fed))
    /\ \A k \in 1..(Len(fed) - 1) : ~HandledAsTerminal(k)
    /\ \E k \in 1..(Len(fed) - 1) : "terminal" \in fed[k].m
    /\ Len(inputStack) = 2
    /\ inputStack[1].format # inputStack[2].format

\* a call was made: one more line is in the history
Called == Len(fed') = Len(fed) + 1

ScanStateUnchanged ==
    /\ inputStack' = inputStack
    /\ inputIndex' = inputIndex
    /\ inInput' = inInput

\* the descriptors accumulated before the call are all still there, and none differs
\* except possibly the most recently pushed one
OnlyLatestMayDiffer ==
    /\ Len(inputStack') = Len(inputStack)
    /\ \A i \in 1..(Len(inputStack) - 1) : inputStack'[i] = inputStack[i]

\* C3 (as stated): a line matching Duration, Audio or Video changes a descriptor only
\* in an input section, and then only the latest one; outside an input section it
\* leaves the scan state unchanged; a line matching the Output marker sets
\* inInputSection to false and leaves the descriptors unchanged.
C3_ByPatternMatched ==
    [][Called =>
        LET m == Last(fed').m IN
        /\ (m \cap DurAudioVideo # {} /\ inInput) => OnlyLatestMayDiffer
        /\ (m \cap DurAudioVideo # {} /\ ~inInput) => ScanStateUnchanged
        /\ ("output" \in m) => (~inInput' /\ inputStack' = inputStack)]_vars

\* C3 (amended): the same of the lines that do not also match a pattern tried
\* earlier: a Duration, Audio or Video line that does not match the new-input
\* marker, and an Output line that does not match the new-input marker and, in an
\* input section, none of Duration, Audio and Video.
C3_ByPatternPrecedence ==
    [][Called =>
        LET m == Last(fed').m IN
        /\ (m \cap DurAudioVideo # {} /\ "input" \notin m /\ inInput)
              => (OnlyLatestMayDiffer /\ inInput' /\ inputIndex' = inputIndex)
        /\ (m \cap DurAudioVideo # {} /\ "input" \notin m /\ ~inInput)
              => ScanStateUnchanged
        /\ ("output" \in m /\ "input" \notin m /\ (inInput => m \cap DurAudioVideo = {}))
              => (~inInput' /\ inputStack' = inputStack /\ inputIndex' = inputIndex)]_vars

\* two descriptors, the second written to by a Duration, Audio or Video line, then an
\* Output line, then such a line again
C3_Witness ==
    /\ Len(fed) = MaxFed
    /\ ~codecFault
    /\ Len(inputStack) = 2
    /\ fed[3].m \cap DurAudioVideo # {}
    /\ inputStack[2] # NewDescriptor(inputStack[2].format)
    /\ inputStack[1] = NewDescriptor(inputStack[1].format)
    /\ fed[4].m = {"output"}
    /\ ~inInput

\* no pattern that the scan state lets apply matches the line
NothingApplies(m, inSection) ==
    /\ "input" \notin m
    /\ "output" \notin m
    /\ "terminal" \notin m
    /\ inSection => m \cap DurAudioVideo = {}

\* C4: no call faults; after every call inputIndex is the number of descriptors
\* minus one, every element of inputStack is a descriptor, and inInput implies that
\* inputIndex is the index of one; a line that matches no pattern applicable in the
\* current state leaves the scan state unchanged and the call returns false.
C4_NeverFaults ==
    [][Called =>
        /\ ~codecFault'
        /\ inputIndex' = Len(inputStack') - 1
        /\ \A i \in 1..Len(inputStack') : inputStack'[i] # Hole
        /\ inInput' => inputIndex' \in 0..(Len(inputStack') - 1)
        /\ NothingApplies(Last(fed').m, inInput) =>
              /\ ScanStateUnchanged
              /\ emitted' = emitted
              /\ Len(returns') = Len(returns) + 1
              /\ ~Last(returns')]_vars

\* Duration, Audio and Video lines were fed before any input section and after an
\* Output line, and nothing happened
C4_Witness ==
    /\ Len(fed) = MaxFed
    /\ ~codecFault
    /\ fed[1].m \cap DurAudioVideo # {} /\ NothingApplies(fed[1].m, inBefore[1])
    /\ "input" \in fed[2].m
    /\ "output" \in fed[3].m
    /\ fed[4].m \cap DurAudioVideo # {} /\ NothingApplies(fed[4].m, inBefore[4])
    /\ inputStack = <<NewDescriptor(fed[2].format)>>

DescriptorFields ==
    {"format", "duration", "audio", "audio_details", "video", "video_details"}

\* how many of the lines 1..k matched the new-input marker: line k lies in the input
\* section of that number
SectionOf(k) ==
    Cardinality({j \in 1..k : "input" \in fed[j].m})

\* a Duration, Audio or Video line was observed in input section i before line n
Observed(pattern, i, n) ==
    \E k \in 1..(n - 1) :
        /\ SectionOf(k) = i
        /\ inBefore[k]
        /\ "input" \notin fed[k].m
        /\ pattern \in fed[k].m

\* C5: every descriptor emitted has all six fields defined; format is the text the
\* new-input marker captured; duration, audio and video are empty text, and
\* audio_details and video_details the empty sequence, unless the Duration, Audio
\* or Video line was observed in that input section.
C5_AllSixFieldsDefined ==
    \A j \in 1..Len(emitted) : \A i \in 1..Len(emitted[j]) :
        LET d == emitted[j][i]
            n == emittedAt[j]
        IN  /\ DOMAIN d = DescriptorFields
            /\ d.format = InputFormats(SubSeq(fed, 1, n))[i]
            /\ ~Observed("dur", i, n) => d.duration = <<>>
            /\ ~Observed("audio", i, n) => (d.audio = <<>> /\ d.audio_details = <<>>)
            /\ ~Observed("video", i, n) => (d.video = <<>> /\ d.video_details = <<>>)

---------------------------------------------------------------------------
(* Claims about the argument list, checked under SpecArgs *)

\* C9: as long as only append calls, each with one array of tokens or with a variadic
\* token list, have been made since the list was created or cleared, get() returns
\* the tokens of all those calls concatenated in call order, duplicates kept;
\* clear() leaves the empty sequence.
C9_GetIsConcatenation ==
    /\ ~argRemoved => ArgGet = argAppended
    /\ argOp.op = "clear" => ArgGet = <<>>

C9_Witness ==
    /\ ~argRemoved
    /\ argOp.op = "append"
    /\ Len(list) = MaxListLen
    /\ \E i, j \in 1..Len(list) : i # j /\ list[i] = list[j]
    /\ list[1] = "x" /\ list[2] = "a" /\ list[3] = "x"

\* the positions of the list where arg occurs
Occurrences(arg) == {p \in 1..Len(list) : list[p] = arg}

\* the first of them
FirstOccurrence(arg) ==
    CHOOSE p \in Occurrences(arg) : \A q \in Occurrences(arg) : p <= q

\* C10 (as stated): find(token, count) returns exactly the count tokens that follow
\* the first occurrence of token, and undefined when token does not occur; it never
\* changes the list.
C10_FindReturnsCountTokens ==
    [][argOp'.op = "find" =>
        /\ list' = list
        /\ argFound'.found = (Occurrences(argOp'.arg) # {})
        /\ argFound'.found =>
              LET p == FirstOccurrence(argOp'.arg) IN
              /\ Len(argFound'.items) = argOp'.count
              /\ \A k \in 1..argOp'.count : argFound'.items[k] = list[p + k]]_vars

\* C10 (amended): find(token, count) returns the tokens that follow the first
\* occurrence of token, count of them or, when fewer follow, all that follow, and
\* undefined when token does not occur; it never changes the list.
C10_FindReturnsUpToCountTokens ==
    [][argOp'.op = "find" =>
        /\ list' = list
        /\ argFound'.found = (Occurrences(argOp'.arg) # {})
        /\ argFound'.found =>
              LET p == FirstOccurrence(argOp'.arg) IN
              /\ Len(argFound'.items) = Min(argOp'.count, Len(list) - p)
              /\ \A k \in 1..Len(argFound'.items) : argFound'.items[k] = list[p + k]]_vars

\* the token occurs twice, and fewer than count tokens follow its first occurrence
C10_Witness ==
    /\ argOp.op = "find"
    /\ argFound.found
    /\ Cardinality(Occurrences(argOp.arg)) = 2
    /\ FirstOccurrence(argOp.arg) > 1
    /\ argFound.items # <<>>
    /\ Len(argFound.items) < argOp.count

\* C11: remove(token, count) deletes the first occurrence of token and the count
\* tokens that follow it (those of them that exist), leaves every other token in
\* its original relative order, and leaves the list unchanged when token does not
\* occur.
C11_RemoveDeletesTokenAndFollowers ==
    [][argOp'.op = "remove" =>
        IF Occurrences(argOp'.arg) = {}
        THEN list' = list
        ELSE LET p == FirstOccurrence(argOp'.arg)
                 c == argOp'.count
                 kept == {q \in 1..Len(list) : q < p \/ q > p + c}
             IN  /\ Len(list') = Cardinality(kept)
                 /\ \A q \in kept :
                       list'[IF q < p THEN q ELSE q - (c + 1)] = list[q]]_vars

\* the token and one follower were taken out of the middle, and the token still
\* occurs further on
C11_Witness ==
    /\ argOp.op = "remove"
    /\ argOp.count = 1
    /\ argRemoved
    /\ Len(list) = MaxListLen - 2
    /\ Occurrences(argOp.arg) # {}
    /\ FirstOccurrence(argOp.arg) > 1

\* C12: clone() returns a list whose contents are those of the original at the time
\* of the call and leaves the original as it is; thereafter append, clear and
\* remove on either list leave the contents of the other unchanged.
C12_CloneIsIndependent ==
    [][/\ (~cloned /\ cloned') => (cloneList' = list /\ list' = list)
       /\ (cloned /\ argTarget' = "original") => cloneList' = cloneList
       /\ (cloned /\ argTarget' = "clone") => list' = list]_vars

\* tokens were removed from the clone and appended to the original, after a clone
\* of a list of two tokens
C12_Witness ==
    /\ cloned
    /\ argTarget = "original"
    /\ argOp.op = "append"
    /\ Len(list) = MaxCloneLen
    /\ cloneList # <<>>
    /\ Len(cloneList) < Len(list)
    /\ \A i \in 1..Len(cloneList) : cloneList[i] # list[i]

---------------------------------------------------------------------------
(* Claims about makeFilterStrings, checked under SpecFilter *)

\* a value in single quotes exactly when it is a string holding a comma
QuotedIfComma(v) ==
    IF v.type = "string" /\ "," \in {v.text[i] : i \in 1..Len(v.text)}
    THEN <<"'">> \o v.text \o <<"'">>
    ELSE v.text

\* what stands between the filter name and the outputs when every option of the
\* array or object is written by `quote`, and the single scalar option by `single`
OptionsWritten(options, single(_), quote(_)) ==
    CASE options.kind = "scalar" /\ truthy(options) ->
            <<"=">> \o single(options.value)
      [] options.kind = "array" ->
            <<"=">> \o JoinWith([i \in 1..Len(options.values) |-> quote(options.values[i])],
                                <<":">>)
      [] options.kind = "object" /\ options.keys # <<>> ->
            <<"=">> \o JoinWith([i \in 1..Len(options.keys) |->
                                    options.keys[i] \o <<"=">> \o quote(options.values[i])],
                                <<":">>)
      [] OTHER -> <<>>

AsIs(v) == v.text

FilterStringsAre(single(_), quote(_)) ==
    /\ Len(filterStrings) = Len(filters)
    /\ \A i \in 1..Len(filters) :
          ~filters[i].isString =>
              filterStrings[i] =
                  streamsString(filters[i].inputs) \o filters[i].filter
                     \o OptionsWritten(filters[i].options, single, quote)
                     \o streamsString(filters[i].outputs)

\* C13 (as stated): an option value is in single quotes exactly when it is a string
\* holding a comma, as a single scalar option, as an element of an option array and
\* as a value of an option object.
C13_QuotedInEveryPosition ==
    FilterStringsAre(QuotedIfComma, QuotedIfComma)

\* C13 (amended): the same as an element of an option array and as a value of an
\* option object; a single scalar option is written as it is, comma or not.
C13_QuotedInArraysAndObjects ==
    FilterStringsAre(AsIs, QuotedIfComma)

C13_Witness ==
    /\ Len(filters) = 1
    /\ filters[1].options.kind = "object"
    /\ filters[1].options.values = <<Str(<<"a", ",", "b">>), Num(<<"1">>)>>
    /\ filterStrings[1] = <<"f", "=", "w", "=", "'", "a", ",", "b", "'", ":", "h", "=", "1">>

---------------------------------------------------------------------------
(* Claims about extractProgress, checked under SpecProgress *)

\* the tokens of the line after collapsing the spaces after = and trimming
TokensOf(line) == split(trim(collapse(line)), " ")

\* a token has a key and an =value part: it holds an equals sign (the key and the
\* value may be empty)
IsKeyValue(token) == \E i \in 1..Len(token) : token[i] = "="

\* C14: a 'progress' event is emitted if and only if every token of the line has a
\* key and an =value part, and no call raises a fault.
C14_EmitsIffAllKeyValueAndNoFault ==
    /\ (progressEvents # <<>>) <=>
          \A i \in 1..Len(TokensOf(stderrLine)) : IsKeyValue(TokensOf(stderrLine)[i])
    /\ ~progressFault

---------------------------------------------------------------------------
(* Claims about extractError, checked under SpecError *)

\* the lines of the text, and those of them that begin with a space or a bracket
StderrLinesOf(text) == nlSplit(text)

MarkedLines(text) ==
    {i \in 1..Len(StderrLinesOf(text)) :
        /\ Len(StderrLinesOf(text)[i]) > 0
        /\ StderrLinesOf(text)[i][1] = " " \/ StderrLinesOf(text)[i][1] = "["}

LastMarked(text) ==
    IF MarkedLines(text) = {} THEN 0
    ELSE CHOOSE i \in MarkedLines(text) : \A j \in MarkedLines(text) : j <= i

\* C15: the result is the lines after the last line that begins with a space or
\* a bracket (all lines when there is none) joined by line feeds, and it is the
\* empty text when the last line begins with a space or a bracket.
C15_LinesAfterLastMarked ==
    /\ errorText = Join([i \in 1..(Len(StderrLinesOf(stderr)) - LastMarked(stderr)) |->
                            StderrLinesOf(stderr)[LastMarked(stderr) + i]])
    /\ Len(StderrLinesOf(stderr)) \in MarkedLines(stderr) => errorText = <<>>

C15_Witness ==
    /\ stderr = <<"[", LF, "e", CR, "e">>
    /\ errorText = <<"e", LF, "e">>

---------------------------------------------------------------------------
(* Claims about which, checked under SpecWhich *)

\* the step is a which(name) call
IsCallStep == Len(calls') = Len(calls) + 1

NewestCall == calls'[Len(calls')]

\* C16: a lookup that fails delivers the empty path with a null error and stores
\* the empty path under the name, as a resolved lookup stores its result; a call
\* made while the name is in the cache delivers the entry and starts no lookup.
C16_FailureCachedAndCacheServes ==
    [][/\ \A id \in 1..Len(calls) :
            /\ (calls[id].outcome = "none" /\ calls'[id].outcome = "rejected") =>
                  /\ calls'[id].delivered = <<<<"null", "">>>>
                  /\ calls[id].name \in DOMAIN whichCache'
                  /\ whichCache'[calls[id].name] = ""
            /\ (calls[id].outcome = "none" /\ calls'[id].outcome = "resolved") =>
                  /\ calls[id].name \in DOMAIN whichCache'
                  /\ <<"null", whichCache'[calls[id].name]>> = calls'[id].delivered[1]
       /\ (IsCallStep /\ NewestCall.name \in DOMAIN whichCache) =>
            /\ NewestCall.delivered = <<<<"null", whichCache[NewestCall.name]>>>>
            /\ lookupsStarted' = lookupsStarted
            /\ whichCache' = whichCache]_vars

C16_Witness ==
    /\ Len(calls) = 2
    /\ calls[1].outcome = "rejected"
    /\ calls[2].name = calls[1].name
    /\ calls[2].stage = "cached"
    /\ calls[2].delivered = <<<<"null", "">>>>
    /\ lookupsStarted = 1

\* the calls that started an external lookup and whose callback was called
Answered(name) ==
    {id \in 1..Len(calls) :
        calls[id].name = name /\ calls[id].outcome # "none" /\ calls[id].delivered # <<>>}

\* C17: when no callback throws, the calls that looked up the same name while it
\* was not cached are all delivered the same path, and the path cached for the name
\* stays the one that was delivered.
C17_ConcurrentCallersAgree ==
    (\A id \in 1..Len(calls) : ~calls[id].throws) =>
        \A name \in Names :
            /\ \A i, j \in Answered(name) : calls[i].delivered = calls[j].delivered
            /\ \A i \in Answered(name) : calls[i].delivered[1][2] = whichCache[name]

\* C20: the callback of a call is called once, with a null error, when the name is
\* cached, when the lookup resolves, when it rejects and when the callback throws;
\* after a callback threw, the value cached for the name is not replaced.
C20_CallbackOnceAndCacheKept ==
    [][\A id \in 1..Len(calls') :
          /\ calls'[id].stage # "pending" => Len(calls'[id].delivered) = 1
          /\ \A k \in 1..Len(calls'[id].delivered) : calls'[id].delivered[k][1] = "null"
          /\ (id <= Len(calls) /\ calls[id].stage = "thrown" /\ calls'[id].stage # "thrown")
                => whichCache' = whichCache]_vars

---------------------------------------------------------------------------
(* Claims about the cutting of the appended text, checked under SpecRing *)

\* what a subscriber registered on a new ring receives when text is appended as one
\* chunk and the ring is closed: the lines of text, the last one on close; nothing
\* is appended when the text is empty
DeliveredInOneChunk(text) ==
    IF text = <<>> THEN <<>> ELSE nlSplit(text)

\* C18: once the ring is closed, a subscriber registered before anything was
\* appended has received the lines it would have received had the appended text
\* been appended as a single chunk, however the text was cut into chunks.
C18_CutsDoNotChangeLines ==
    (closed /\ cbs >= 1 /\ regText[1] = <<>>) =>
        delivered[1] = DeliveredInOneChunk(appendedText)

---------------------------------------------------------------------------
(* Claims about calls of the scanner after it returned true, checked under SpecCodec *)

\* some call before the k-th returned true
ReturnedTrueBefore(k) == \E j \in 1..(k - 1) : returns[j]

\* C19 (as stated): once a call has returned true, every further call returns true,
\* emits no 'codecData' event and changes no accumulated descriptor.
C19_NoOpAfterTrue ==
    [][(Called /\ ReturnedTrueBefore(Len(returns) + 1)) =>
          /\ Len(returns') = Len(returns) + 1
          /\ Last(returns')
          /\ emitted' = emitted
          /\ inputStack' = inputStack]_vars

\* C19 (amended): once a call has returned true, a further call is handled as any
\* call is: it returns true exactly when its line is handled as the terminal
\* marker, and then it emits 'codecData' again; a new-input line still adds a
\* descriptor, so that the descriptors are those of all the new-input lines fed.
C19_HandledAsAnyCallAfterTrue ==
    /\ \A k \in 1..Len(returns) :
          ReturnedTrueBefore(k) =>
              /\ returns[k] = HandledAsTerminal(k)
              /\ returns[k] <=> \E e \in 1..Len(emittedAt) : emittedAt[e] = k
    /\ ReturnedTrueBefore(Len(returns) + 1) =>
          [i \in 1..Len(inputStack) |-> inputStack[i].format] = InputFormats(fed)

C19_Witness ==
    /\ returns = <<FALSE, TRUE, FALSE, TRUE>>
    /\ "input" \in fed[3].m
    /\ Len(emitted) = 2
    /\ Len(emitted[1]) = 1
    /\ Len(emitted[2]) = 2

---------------------------------------------------------------------------

Init == RingInit /\ CodecInit /\ ArgInit /\ FilterInit /\ ProgressInit /\ ErrorInit
       /\ WhichInit

Next == RingNext \/ CodecNext \/ ArgNext \/ CloneNext \/ FilterNext \/ ProgressNext \/ ErrorNext
           \/ WhichNext

Spec == Init /\ [][Next]_vars

\* one ring buffer, used alone
SpecRing == Init /\ [][RingNext]_vars

\* the components that do not use a ring buffer start beside an unused one
InitRingUnused == RingCreated(0) /\ CodecInit /\ ArgInit /\ FilterInit /\ ProgressInit /\ ErrorInit
       /\ WhichInit

\* one scan session, used alone
SpecCodec == InitRingUnused /\ [][CodecNext]_vars

\* one argument list, used alone
SpecArgs == InitRingUnused /\ [][ArgNext]_vars

\* one argument list and its clone
SpecClone == InitRingUnused /\ [][CloneNext]_vars

\* calls of makeFilterStrings
SpecFilter == InitRingUnused /\ [][FilterNext]_vars

\* calls of extractProgress
SpecProgress == InitRingUnused /\ [][ProgressNext]_vars

\* calls of extractError
SpecError == InitRingUnused /\ [][ErrorNext]_vars

\* calls of which and the settling of their lookups
SpecWhich == InitRingUnused /\ [][WhichNext]_vars

===========================================================================
